---------------------------- MODULE Spec2Model ----------------------------
(***************************************************************************)
(* A model of the agent orchestration core of Preflight-ai:                *)
(* backend/agents/base_agent.py (AgentTool, BaseAgent).                    *)
(*                                                                         *)
(* backend/agents/director.py (DirectorAgent).                             *)
(*                                                                         *)
(* One BaseAgent instance (a worker) is modelled on its own: its memory,   *)
(* its tool registry, its task history, the HTTP exchange with the Ollama  *)
(* oracle and the position of the running decide_and_act call.  The        *)
(* Director and the workers it coordinates are modelled as a heap of       *)
(* agents, with the position of the running coordinate_prediction call.    *)
(*                                                                         *)
(* Python strings that are produced or scanned character by character      *)
(* (oracle responses, prompts, memory contents) are "texts": sequences of  *)
(* tokens.  A token is a record with a field c; the tokens "{" and "}"     *)
(* are the two braces the code scans for, a "member" token stands for one  *)
(* well-formed  "key": value  pair of a JSON object, and every other token *)
(* is a run of characters without braces.                                  *)
(***************************************************************************)
EXTENDS Integers, Sequences, FiniteSets, TLC

VARIABLES
    memory,        \* self.memory: list of {role, content, timestamp}
    tools,         \* self.tools: dict name -> AgentTool, in insertion order
    task_history,  \* self.task_history: list of task records
    clock,         \* datetime.now(): a logical clock, one tick per reading
    pc,            \* position of the running decide_and_act call
    task,          \* decide_and_act's argument
    sent,          \* call_llm: the messages of the last request posted
    response,      \* call_llm: the outcome of the last HTTP exchange
    llm_ret,       \* call_llm: what it returned last (or that it raised)
    decision,      \* decide_and_act: decision (raw planning text)
    decision_json, \* decide_and_act: decision_json (the plan)
    todo,          \* decide_and_act: the tools_to_use entries not yet visited
    tool_results,  \* decide_and_act: tool_results
    synthesis,     \* decide_and_act: synthesis (raw synthesis text)
    result,        \* what the last decide_and_act call returned (or that it raised)
    appended,      \* history: every entry add_to_memory ever appended, in order
    calls,         \* history: number of decide_and_act calls, of call_llm calls
    agents,        \* the Director and its workers: memory, tools, task_history of each
    specialists,   \* Director.specialists: dict name -> agent, in insertion order
    self,          \* the agent whose decide_and_act the Director's call is running
    cp_pc,         \* position of the running coordinate_prediction call
    cp_args,       \* coordinate_prediction's arguments
    cp_decision,   \* coordinate_prediction: decision
    agent_results, \* coordinate_prediction: agent_results, in insertion order
    report         \* what coordinate_prediction returned (or that it raised)

vars == <<memory, tools, task_history, clock, pc, task, sent, response, llm_ret,
          decision, decision_json, todo, tool_results, synthesis, result,
          appended, calls, agents, specialists, self, cp_pc, cp_args, cp_decision,
          agent_results, report>>

\* the state of the Director's side
dvars == <<agents, specialists, self, cp_pc, cp_args, cp_decision, agent_results, report>>

-----------------------------------------------------------------------------
(* Bounds of the model *)

\* direct add_to_memory calls explored by Spec
MaxAppends == 1
\* register_tool calls explored by Spec
MaxRegs == 2
\* longest tools_to_use list the oracle's plans carry
MaxPlan == 2
\* decide_and_act calls explored by SpecMemory
MemTasks == 2
\* add_to_memory calls (direct or from decide_and_act) explored by SpecMemory
MemAppends == 12
\* decide_and_act calls explored by SpecHistory
HistTasks == 2
\* entries of Director.specialists explored by SpecDirector
MaxSpecialists == 2

(* Program constants *)

\* self.max_memory = 10
max_memory == 10
\* self.memory[-5:]
recent_window == 5
\* the fallback confidence
default_confidence == 50
\* response.status_code == 200
http_ok == 200

-----------------------------------------------------------------------------
(* Python / JSON values *)

None == [ty |-> "None"]
JNum(n) == [ty |-> "num", n |-> n]
\* a string used as a whole (a name, a label)
JStr(s) == [ty |-> "str", s |-> s]
\* a string held as a text (the raw oracle text kept by a fallback)
JText(t) == [ty |-> "text", t |-> t]
JList(items) == [ty |-> "list", items |-> items]
\* a dict: o is a function from keys to values
JObj(o) == [ty |-> "obj", o |-> o]
EmptyDict == JObj(<<>>)

\* dict.get(key, default)
Get(d, key, default) == IF key \in DOMAIN d.o THEN d.o[key] ELSE default

\* whether "for x in v" can start: lists, strings and dicts are iterable
Iterable(v) == v.ty \in {"list", "str", "text", "obj"}

\* the items "for x in v" visits, for an iterable v
RECURSIVE SetToSeq(_)
SetToSeq(S) == IF S = {} THEN <<>>
               ELSE LET x == CHOOSE y \in S : TRUE
                    IN <<x>> \o SetToSeq(S \ {x})

Items(v) == CASE v.ty = "list" -> v.items
              [] v.ty = "str" -> IF v.s = "" THEN <<>> ELSE <<JStr(v.s)>>
              [] v.ty = "text" -> [i \in 1..Len(v.t) |-> JStr(v.t[i].c)]
              [] v.ty = "obj" -> [i \in 1..Len(SetToSeq(DOMAIN v.o)) |->
                                     JStr(SetToSeq(DOMAIN v.o)[i])]
              [] OTHER -> <<>>

\* hash(v) succeeds: lists and dicts are unhashable
Hashable(v) == v.ty \notin {"list", "obj"}

-----------------------------------------------------------------------------
(* Texts *)

Ch(s) == [c |-> s]
LBrace == Ch("{")
RBrace == Ch("}")
\* one "key": value pair of a JSON object
Member(k, v) == [c |-> "member", key |-> k, val |-> v]
IsMember(tok) == tok.c = "member"

\* str.find("{"): 0-based index of the first "{", or -1
Find(t, tok) ==
    IF \E i \in 1..Len(t) : t[i] = tok
    THEN (CHOOSE i \in 1..Len(t) : t[i] = tok /\ \A j \in 1..(i-1) : t[j] # tok) - 1
    ELSE -1

\* str.rfind("}"): 0-based index of the last "}", or -1
RFind(t, tok) ==
    IF \E i \in 1..Len(t) : t[i] = tok
    THEN (CHOOSE i \in 1..Len(t) : t[i] = tok /\ \A j \in (i+1)..Len(t) : t[j] # tok) - 1
    ELSE -1

\* t[start:end] for 0 <= start <= end
Slice(t, start, end) == SubSeq(t, start + 1, IF end > Len(t) THEN Len(t) ELSE end)

\* json.loads accepts s: one object, "{" members "}"
JsonValid(s) ==
    /\ Len(s) >= 2
    /\ s[1] = LBrace
    /\ s[Len(s)] = RBrace
    /\ \A i \in 2..(Len(s) - 1) : IsMember(s[i])

\* json.loads(s) for a valid s: a later pair with the same key wins
JsonLoads(s) ==
    LET ms == SubSeq(s, 2, Len(s) - 1)
        keys == {ms[i].key : i \in 1..Len(ms)}
        last(k) == CHOOSE i \in 1..Len(ms) :
                       ms[i].key = k /\ \A j \in (i+1)..Len(ms) : ms[j].key # k
    IN JObj([k \in keys |-> ms[last(k)].val])


-----------------------------------------------------------------------------
(* AgentTool and the tool registry *)

\* the bound functions the model registers: one that answers, one that raises
ToolFns == {"fetch", "failing"}
ToolNames == {"get_current_weather", "get_forecast"}

\* self.function(**kwargs): a keyword the function does not take, or a missing
\* one, raises TypeError; "failing" raises on every call
CallFunction(fn, kwargs) ==
    IF DOMAIN kwargs.o # {"airport_code"}
    THEN [raised |-> TRUE, exc |-> "TypeError"]
    ELSE IF fn = "failing"
         THEN [raised |-> TRUE, exc |-> "upstream unavailable"]
         ELSE [raised |-> FALSE,
               value |-> JObj([source |-> JStr(fn), airport |-> kwargs.o["airport_code"]])]

\* AgentTool.execute without its try/except: the exception propagates
Execute_NoCatch(tool, kwargs) == CallFunction(tool.function, kwargs)

\* AgentTool.execute(**kwargs)
Execute(tool, kwargs) ==
    LET r == CallFunction(tool.function, kwargs)
    IN IF r.raised
       THEN [raised |-> FALSE,
             value |-> JObj([error |-> JText(<<Ch("Tool execution failed: "), Ch(r.exc)>>)])]
       ELSE r

AgentTool(name, description, function, parameters) ==
    [name |-> name, description |-> description,
     function |-> function, parameters |-> parameters]

\* name in self.tools, for a name that is a str
HasTool(ts, name) == \E i \in 1..Len(ts) : ts[i].name = name
\* self.tools[name]
ToolOf(ts, name) == ts[CHOOSE i \in 1..Len(ts) : ts[i].name = name]

\* tool_name in self.tools, for any value the plan gives as a name
InRegistry(ts, v) == v.ty = "str" /\ HasTool(ts, v.s)

\* self.tools[name] = tool: a dict keeps a key's place when its value is replaced
DictSet(ts, tool) ==
    IF HasTool(ts, tool.name)
    THEN [i \in 1..Len(ts) |-> IF ts[i].name = tool.name THEN tool ELSE ts[i]]
    ELSE Append(ts, tool)

\* get_tools_description: name, description and parameters, in dict order
ToolsDescription(ts) ==
    [i \in 1..Len(ts) |-> [name |-> ts[i].name, description |-> ts[i].description,
                            parameters |-> ts[i].parameters]]

-----------------------------------------------------------------------------
(* Conversation memory *)

\* lst[-n:] for n > 0
LastN(lst, n) == IF Len(lst) > n THEN SubSeq(lst, Len(lst) - n + 1, Len(lst)) ELSE lst

MemoryEntry(role, content, now) == [role |-> role, content |-> content, timestamp |-> now]

\* the truncation of add_to_memory left out
Truncate_None(mem) == mem

\* the truncation of add_to_memory keeping the oldest entries
Truncate_Oldest(mem) == IF Len(mem) > max_memory THEN SubSeq(mem, 1, max_memory) ELSE mem

\* if len(self.memory) > self.max_memory: self.memory = self.memory[-self.max_memory:]
Truncate(mem) == IF Len(mem) > max_memory THEN LastN(mem, max_memory) ELSE mem

\* add_to_memory(role, content), read at time now
AddToMemory(mem, role, content, now) == Truncate(Append(mem, MemoryEntry(role, content, now)))

-----------------------------------------------------------------------------
(* call_llm *)

AgentName == "WeatherSpecialist"
SystemPrompt == <<Ch("You are a Weather Specialist Agent for aviation operations.")>>

\* the memory window of call_llm taken from the whole memory
Window_All(mem) == mem

\* self.memory[-5:]
Window(mem) == LastN(mem, recent_window)

\* messages: the system prompt, the recent memory without timestamps, the prompt
BuildMessages(mem, prompt) ==
    <<[role |-> "system", content |-> SystemPrompt]>>
    \o [i \in 1..Len(Window(mem)) |->
           [role |-> Window(mem)[i].role, content |-> Window(mem)[i].content]]
    \o <<[role |-> "user", content |-> prompt]>>

\* what requests.post and response.json() can give:
\*   status: an HTTP response; body says what response.json() holds for a 200
\*   exception: requests raised (connection refused, timeout, bad URL)
HttpStatus(code) == [kind |-> "status", code |-> code, body |-> "none", text |-> <<>>]
HttpContent(t) == [kind |-> "status", code |-> http_ok, body |-> "content", text |-> t]
HttpNoMessage == [kind |-> "status", code |-> http_ok, body |-> "no_message", text |-> <<>>]
HttpNotJson == [kind |-> "status", code |-> http_ok, body |-> "not_json", text |-> <<>>]
HttpException(msg) == [kind |-> "exception", code |-> 0, body |-> "none", text |-> msg]

\* f"Error: Ollama returned {response.status_code}"
StatusSentinel(code) == <<Ch("Error"), Ch(":"), Ch(" Ollama returned "), Ch(ToString(code))>>
\* f"Error calling LLM: {str(e)}"
ExceptionSentinel(msg) == <<Ch("Error"), Ch(" calling LLM"), Ch(":"), Ch(" ")>> \o msg

\* call_llm with the try/except left out: an exception of requests propagates
CallLlm_NoCatch(r) ==
    IF r.kind = "exception" \/ r.body = "not_json"
    THEN [raised |-> TRUE, text |-> <<>>]
    ELSE IF r.code = http_ok
         THEN [raised |-> FALSE, text |-> r.text]
         ELSE [raised |-> FALSE, text |-> StatusSentinel(r.code)]

\* call_llm, from the HTTP outcome r on: the text it returns
CallLlm(r) ==
    IF r.kind = "exception"
    THEN [raised |-> FALSE, text |-> ExceptionSentinel(r.text)]
    ELSE IF r.code = http_ok
         THEN IF r.body = "not_json"
              THEN [raised |-> FALSE,
                    text |-> ExceptionSentinel(<<Ch("Expecting value: line 1 column 1 (char 0)")>>)]
              ELSE [raised |-> FALSE, text |-> r.text]
         ELSE [raised |-> FALSE, text |-> StatusSentinel(r.code)]

-----------------------------------------------------------------------------
(* decide_and_act: prompts and parsing *)

\* a token holding json.dumps(v)
Json(v) == [c |-> "json", v |-> v]

\* decision_prompt: the task and the tool catalogue
DecisionPrompt(t, ts) ==
    <<Ch("Task: ")>> \o t \o <<Ch("Available Tools:"), Json(ToolsDescription(ts)),
                               Ch("Instructions: output your plan in JSON format")>>

\* synthesis_prompt: the tool results
SynthesisPrompt(results) ==
    <<Ch("You executed the following tools:"), Json(results),
      Ch("Based on these results, provide findings, insights, recommendations, confidence")>>

\* a fallback plan that drops the raw text
PlanNoBraces_NoText(text) ==
    JObj([reasoning |-> JStr(""), tools_to_use |-> JList(<<>>),
          expected_outcome |-> JStr("Manual analysis required")])

\* the plan used when the planning text has no brace-delimited part
PlanNoBraces(text) ==
    JObj([reasoning |-> JText(text), tools_to_use |-> JList(<<>>),
          expected_outcome |-> JStr("Manual analysis required")])

\* the plan used when json.loads raises JSONDecodeError
PlanNoParse(text) ==
    JObj([reasoning |-> JText(text), tools_to_use |-> JList(<<>>),
          expected_outcome |-> JStr("Could not parse decision")])

\* {"insights": synthesis, "confidence": 50}
SynthesisFallback(text) ==
    JObj([insights |-> JText(text), confidence |-> JNum(default_confidence)])

\* start = text.find("{"); end = text.rfind("}") + 1
\* if start != -1 and end > start: json.loads(text[start:end]) else: noBraces
\* except json.JSONDecodeError: noParse
ParseBraces(text, noBraces, noParse) ==
    LET start == Find(text, LBrace)
        end == RFind(text, RBrace) + 1
    IN IF start # -1 /\ end > start
       THEN IF JsonValid(Slice(text, start, end))
            THEN JsonLoads(Slice(text, start, end))
            ELSE noParse
       ELSE noBraces

\* the parse of the planning text
ParseDecision(text) == ParseBraces(text, PlanNoBraces(text), PlanNoParse(text))

\* a parse of the synthesis text whose fallback keeps no confidence
ParseSynthesis_NoDefault(text) ==
    ParseBraces(text, JObj([insights |-> JText(text)]), JObj([insights |-> JText(text)]))

\* the parse of the synthesis text
ParseSynthesis(text) == ParseBraces(text, SynthesisFallback(text), SynthesisFallback(text))

\* str(v) inside an f-string
PyStr(v) == CASE v.ty = "num" -> <<Ch(ToString(v.n))>>
              [] v.ty = "str" -> <<Ch(v.s)>>
              [] v.ty = "text" -> v.t
              [] v.ty = "None" -> <<Ch("None")>>
              [] OTHER -> <<[c |-> "repr", v |-> v]>>

\* an assistant entry that sums up the insights next to the confidence
CompletedContent_Insights(synthesis_json) ==
    <<Ch("Completed task. Insights: ")>>
    \o PyStr(Get(synthesis_json, "insights", JStr("N/A")))
    \o <<Ch(" Confidence: ")>>
    \o PyStr(Get(synthesis_json, "confidence", JStr("N/A"))) \o <<Ch("%")>>

\* f"Completed task. Confidence: {synthesis_json.get('confidence', 'N/A')}%"
CompletedContent(synthesis_json) ==
    <<Ch("Completed task. Confidence: ")>>
    \o PyStr(Get(synthesis_json, "confidence", JStr("N/A"))) \o <<Ch("%")>>

\* a task record that files the raw plan in the place of the synthesis
TaskRecord_PlanAsSynthesis(now, t, plan, results, synthesis_json) ==
    [timestamp |-> now, task |-> t, decision |-> plan,
     tool_results |-> results, synthesis |-> plan]

\* task_record = {"timestamp", "task", "decision", "tool_results", "synthesis"}
TaskRecord(now, t, plan, results, synthesis_json) ==
    [timestamp |-> now, task |-> t, decision |-> plan,
     tool_results |-> results, synthesis |-> synthesis_json]

\* the dict decide_and_act returns
Returned(name, plan, results, synthesis_json, now) ==
    [ty |-> "returned", agent |-> name,
     reasoning |-> Get(plan, "reasoning", JStr("")),
     actions |-> results, conclusion |-> synthesis_json, timestamp |-> now]

-----------------------------------------------------------------------------
(* decide_and_act: one pass of the tool loop *)

Raised(exc) == [raised |-> TRUE, exc |-> exc]

\* a tool loop that runs each tool name once only
RunTool_Once(ts, tool_plan, results) ==
    IF tool_plan.ty # "obj" THEN Raised("AttributeError")
    ELSE LET tool_name == Get(tool_plan, "tool", None)
             params == Get(tool_plan, "parameters", EmptyDict)
         IN IF ~Hashable(tool_name) THEN Raised("TypeError")
            ELSE IF InRegistry(ts, tool_name)
                    /\ \A i \in 1..Len(results) : results[i].tool # tool_name
                 THEN IF params.ty # "obj" THEN Raised("TypeError")
                      ELSE [raised |-> FALSE,
                            results |-> Append(results,
                                [tool |-> tool_name, parameters |-> params,
                                 result |-> Execute(ToolOf(ts, tool_name.s), params).value])]
                 ELSE [raised |-> FALSE, results |-> results]

\* the body of "for tool_plan in decision_json.get('tools_to_use', [])":
\*   tool_plan.get needs a dict, "in self.tools" a hashable name,
\*   execute(**params) a mapping
RunTool(ts, tool_plan, results) ==
    IF tool_plan.ty # "obj" THEN Raised("AttributeError")
    ELSE LET tool_name == Get(tool_plan, "tool", None)
             params == Get(tool_plan, "parameters", EmptyDict)
         IN IF ~Hashable(tool_name) THEN Raised("TypeError")
            ELSE IF InRegistry(ts, tool_name)
                 THEN IF params.ty # "obj" THEN Raised("TypeError")
                      ELSE LET r == Execute(ToolOf(ts, tool_name.s), params)
                           IN IF r.raised THEN Raised(r.exc)
                              ELSE [raised |-> FALSE,
                                    results |-> Append(results,
                                        [tool |-> tool_name, parameters |-> params,
                                         result |-> r.value])]
                 ELSE [raised |-> FALSE, results |-> results]

-----------------------------------------------------------------------------
(* The Director and the agents it coordinates *)

Director == "Director"
\* the worker objects: a WeatherSpecialistAgent and a LocationSpecialistAgent
Workers == {"WeatherSpecialist", "LocationSpecialist"}
AgentIds == {Director} \cup Workers

\* the system_prompt each constructor passes to BaseAgent.__init__
SystemPromptOf(a) ==
    CASE a = Director ->
             <<Ch("You are the Director Agent for PreFlight AI flight delay prediction system.")>>
      [] a = "WeatherSpecialist" -> SystemPrompt
      [] a = "LocationSpecialist" ->
             <<Ch("You are a Location Specialist Agent for aviation geography.")>>

\* every agent, the Director too, registers the weather tool
BuiltinTools_All(a) ==
    <<AgentTool("get_current_weather",
                "Get current weather conditions at an airport", "fetch", "schema")>>

\* the tools _register_tools registers that take one airport_code (the tools
\* with other signatures are left out); the Director registers none
BuiltinTools(a) ==
    CASE a = "WeatherSpecialist" ->
             <<AgentTool("get_current_weather",
                         "Get current weather conditions at an airport", "fetch", "schema"),
               AgentTool("get_forecast",
                         "Get hourly weather forecast for airport", "fetch", "schema"),
               AgentTool("get_aviation_briefing",
                         "Get comprehensive aviation weather briefing", "fetch", "schema")>>
      [] a = "LocationSpecialist" ->
             <<AgentTool("get_airport_location",
                         "Get airport coordinates, timezone, and location data",
                         "fetch", "schema")>>
      [] OTHER -> <<>>

\* BaseAgent.__init__ followed by the subclass's _register_tools: every agent
\* gets lists and a dict of its own
NewAgent(a) == [memory |-> <<>>, tools |-> BuiltinTools(a), task_history |-> <<>>]

\* the names coordinate_prediction looks up, in the order of its four ifs
Delegation ==
    <<"weather_specialist", "flight_specialist", "location_specialist",
      "prediction_specialist">>

\* agent_results written under one key by all four ifs
ResultKey_Shared(name) == "weather"

\* agent_results keyed by the registration name
ResultKey_Name(name) == name

\* the key of agent_results each of the four ifs writes
ResultKey(name) ==
    CASE name = "weather_specialist" -> "weather"
      [] name = "flight_specialist" -> "flight_history"
      [] name = "location_specialist" -> "location"
      [] name = "prediction_specialist" -> "prediction"

\* a float with one decimal, in tenths
JFloat(tenths) == [ty |-> "float", tenths |-> tenths]

\* "delay_probability": 0.5, in tenths
neutral_probability == 5
\* "confidence": 50 of the Director's fallback
neutral_confidence == 50

\* a fallback assessment that is an empty dict
AssessmentFallback_Empty == EmptyDict

\* the assessment used when the final text has no brace-delimited JSON object
AssessmentFallback ==
    JObj([delay_probability |-> JFloat(neutral_probability),
          risk_level |-> JStr("MODERATE"),
          confidence |-> JNum(neutral_confidence)])

\* the parse of the final assessment
ParseAssessment(text) == ParseBraces(text, AssessmentFallback, AssessmentFallback)

NoArgs == [flight_number |-> "", origin |-> "", destination |-> "", departure_time |-> ""]

-----------------------------------------------------------------------------
(* The state after construction *)

NoResult == [ty |-> "none"]
NoResponse == [kind |-> "none"]

\* BaseAgent.__init__
Init ==
    /\ memory = <<>>
    /\ tools = <<>>
    /\ task_history = <<>>
    /\ clock = 0
    /\ pc = "idle"
    /\ task = <<>>
    /\ sent = <<>>
    /\ response = NoResponse
    /\ llm_ret = [raised |-> FALSE, text |-> <<>>]
    /\ decision = <<>>
    /\ decision_json = None
    /\ todo = <<>>
    /\ tool_results = <<>>
    /\ synthesis = <<>>
    /\ result = NoResult
    /\ appended = <<>>
    /\ calls = [tasks |-> 0, llm |-> 0, regs |-> 0, appends |-> 0]
    /\ agents = [a \in AgentIds |-> NewAgent(a)]
    /\ specialists = <<>>
    /\ self = Director
    /\ cp_pc = "idle"
    /\ cp_args = NoArgs
    /\ cp_decision = NoResult
    /\ agent_results = <<>>
    /\ report = NoResult

\* no decide_and_act call is running
Idle == pc \in {"idle", "done", "raised"}

-----------------------------------------------------------------------------
(* Operations *)

\* register_tool(name, description, function, parameters)
RegisterTool(name, description, function, parameters) ==
    /\ Idle
    /\ tools' = DictSet(tools, AgentTool(name, description, function, parameters))
    /\ calls' = [calls EXCEPT !.regs = @ + 1]
    /\ UNCHANGED <<memory, task_history, clock, pc, task, sent, response, llm_ret,
                   decision, decision_json, todo, tool_results, synthesis, result,
                   appended>>
    /\ UNCHANGED dvars

\* add_to_memory(role, content), called from outside decide_and_act
AddToMemoryCall(role, content) ==
    /\ Idle
    /\ memory' = AddToMemory(memory, role, content, clock)
    /\ appended' = Append(appended, MemoryEntry(role, content, clock))
    /\ clock' = clock + 1
    /\ calls' = [calls EXCEPT !.appends = @ + 1]
    /\ UNCHANGED <<tools, task_history, pc, task, sent, response, llm_ret,
                   decision, decision_json, todo, tool_results, synthesis, result>>
    /\ UNCHANGED dvars

\* decide_and_act(task), up to the request of the planning call_llm being posted
Start(t) ==
    /\ Idle
    /\ memory' = AddToMemory(memory, "user", t, clock)
    /\ appended' = Append(appended, MemoryEntry("user", t, clock))
    /\ clock' = clock + 1
    /\ task' = t
    /\ sent' = BuildMessages(memory', DecisionPrompt(t, tools))
    /\ pc' = "plan_wait"
    /\ decision' = <<>>
    /\ decision_json' = None
    /\ todo' = <<>>
    /\ tool_results' = <<>>
    /\ synthesis' = <<>>
    /\ result' = NoResult
    /\ calls' = [calls EXCEPT !.tasks = @ + 1, !.llm = @ + 1]
    /\ UNCHANGED <<tools, task_history, response, llm_ret>>
    /\ UNCHANGED dvars

\* a planning call_llm that also stores the answer it got in the memory
PlanResponse_Remember(r) ==
    /\ pc = "plan_wait"
    /\ response' = r
    /\ llm_ret' = CallLlm(r)
    /\ memory' = AddToMemory(memory, "assistant", llm_ret'.text, clock)
    /\ IF llm_ret'.raised
       THEN /\ pc' = "raised"
            /\ result' = [ty |-> "raised", exc |-> "RequestException"]
            /\ UNCHANGED <<decision, decision_json, todo>>
       ELSE /\ decision' = llm_ret'.text
            /\ decision_json' = ParseDecision(decision')
            /\ LET listed == Get(decision_json', "tools_to_use", JList(<<>>))
               IN IF Iterable(listed)
                  THEN /\ todo' = Items(listed)
                       /\ pc' = "acting"
                       /\ UNCHANGED result
                  ELSE /\ todo' = <<>>
                       /\ pc' = "raised"
                       /\ result' = [ty |-> "raised", exc |-> "TypeError"]
    /\ UNCHANGED <<tools, task_history, clock, task, sent, tool_results,
                   synthesis, appended, calls>>
    /\ UNCHANGED dvars

\* the planning call_llm returns; the plan is parsed and the tool loop entered
PlanResponse(r) ==
    /\ pc = "plan_wait"
    /\ response' = r
    /\ llm_ret' = CallLlm(r)
    /\ IF llm_ret'.raised
       THEN /\ pc' = "raised"
            /\ result' = [ty |-> "raised", exc |-> "RequestException"]
            /\ UNCHANGED <<decision, decision_json, todo>>
       ELSE /\ decision' = llm_ret'.text
            /\ decision_json' = ParseDecision(decision')
            /\ LET listed == Get(decision_json', "tools_to_use", JList(<<>>))
               IN IF Iterable(listed)
                  THEN /\ todo' = Items(listed)
                       /\ pc' = "acting"
                       /\ UNCHANGED result
                  ELSE /\ todo' = <<>>
                       /\ pc' = "raised"
                       /\ result' = [ty |-> "raised", exc |-> "TypeError"]
    /\ UNCHANGED <<memory, tools, task_history, clock, task, sent, tool_results,
                   synthesis, appended, calls>>
    /\ UNCHANGED dvars

\* a tool loop that also stores each tool result in the memory
ActStep_Remember ==
    /\ pc = "acting"
    /\ todo # <<>>
    /\ LET step == RunTool(tools, Head(todo), tool_results)
       IN IF step.raised
          THEN /\ pc' = "raised"
               /\ result' = [ty |-> "raised", exc |-> step.exc]
               /\ UNCHANGED <<todo, tool_results, memory>>
          ELSE /\ tool_results' = step.results
               /\ todo' = Tail(todo)
               /\ memory' = IF step.results = tool_results THEN memory
                             ELSE AddToMemory(memory, "tool", <<Json(step.results)>>, clock)
               /\ UNCHANGED <<pc, result>>
    /\ UNCHANGED <<tools, task_history, clock, task, sent, response, llm_ret,
                   decision, decision_json, synthesis, appended, calls>>
    /\ UNCHANGED dvars

\* one iteration of the tool loop
ActStep ==
    /\ pc = "acting"
    /\ todo # <<>>
    /\ LET step == RunTool(tools, Head(todo), tool_results)
       IN IF step.raised
          THEN /\ pc' = "raised"
               /\ result' = [ty |-> "raised", exc |-> step.exc]
               /\ UNCHANGED <<todo, tool_results>>
          ELSE /\ tool_results' = step.results
               /\ todo' = Tail(todo)
               /\ UNCHANGED <<pc, result>>
    /\ UNCHANGED <<memory, tools, task_history, clock, task, sent, response, llm_ret,
                   decision, decision_json, synthesis, appended, calls>>
    /\ UNCHANGED dvars

\* the tool loop is over: the request of the synthesis call_llm is posted
SynthSend ==
    /\ pc = "acting"
    /\ todo = <<>>
    /\ sent' = BuildMessages(memory, SynthesisPrompt(tool_results))
    /\ pc' = "synth_wait"
    /\ calls' = [calls EXCEPT !.llm = @ + 1]
    /\ UNCHANGED <<memory, tools, task_history, clock, task, response, llm_ret,
                   decision, decision_json, todo, tool_results, synthesis, result,
                   appended>>
    /\ UNCHANGED dvars

\* the synthesis call_llm returns; the synthesis is parsed, the task recorded,
\* the memory told and the result returned
SynthResponse(r) ==
    /\ pc = "synth_wait"
    /\ response' = r
    /\ llm_ret' = CallLlm(r)
    /\ IF llm_ret'.raised
       THEN /\ pc' = "raised"
            /\ result' = [ty |-> "raised", exc |-> "RequestException"]
            /\ UNCHANGED <<synthesis, task_history, memory, appended, clock>>
       ELSE /\ synthesis' = llm_ret'.text
            /\ LET synthesis_json == ParseSynthesis(synthesis')
                   content == CompletedContent(synthesis_json)
               IN /\ task_history' = Append(task_history,
                         TaskRecord(clock, task, decision_json, tool_results,
                                    synthesis_json))
                  /\ memory' = AddToMemory(memory, "assistant", content, clock + 1)
                  /\ appended' = Append(appended, MemoryEntry("assistant", content, clock + 1))
                  /\ result' = Returned(AgentName, decision_json, tool_results,
                                         synthesis_json, clock + 2)
            /\ clock' = clock + 3
            /\ pc' = "done"
    /\ UNCHANGED <<tools, task, sent, decision, decision_json, todo, tool_results, calls>>
    /\ UNCHANGED dvars

-----------------------------------------------------------------------------
(* DirectorAgent: register_specialist and coordinate_prediction *)

\* the single worker's own state, which the Director's side never touches
wvars == <<memory, tools, task_history, appended>>

\* add_to_memory on one memory list shared by every agent
Remember_Shared(ags, a, role, content, now) ==
    [b \in DOMAIN ags |->
        [ags[b] EXCEPT !.memory = AddToMemory(ags[a].memory, role, content, now)]]

\* agent a's add_to_memory(role, content), read at time now
Remember(ags, a, role, content, now) ==
    [ags EXCEPT ![a].memory = AddToMemory(@, role, content, now)]

\* agent a's call_llm messages: its own system prompt, its recent memory, the prompt
MessagesOf(a, mem, prompt) ==
    <<[role |-> "system", content |-> SystemPromptOf(a)]>> \o Tail(BuildMessages(mem, prompt))

\* task_description of coordinate_prediction
TaskDescription(args) ==
    <<Ch("Predict delay probability for flight "), Ch(args.flight_number),
      Ch("Route: "), Ch(args.origin), Ch(" -> "), Ch(args.destination),
      Ch("Departure: "), Ch(args.departure_time),
      Ch("Synthesize all data and provide final assessment.")>>

\* weather_task, flight_task, location_task, prediction_task
SubTask(name, args) ==
    CASE name = "weather_specialist" ->
             <<Ch("Analyze current and forecast weather for "), Ch(args.origin),
               Ch(" and "), Ch(args.destination)>>
      [] name = "flight_specialist" ->
             <<Ch("Analyze historical delays for route "), Ch(args.origin),
               Ch("-"), Ch(args.destination)>>
      [] name = "location_specialist" ->
             <<Ch("Analyze geographic factors for route "), Ch(args.origin),
               Ch("-"), Ch(args.destination)>>
      [] name = "prediction_specialist" ->
             <<Ch("Run ML prediction with all gathered data for "), Ch(args.flight_number)>>

\* a token holding agent_name.upper()
Upper(key) == [c |-> "upper", s |-> key]

\* a formatting that dumps each whole result under its heading
RECURSIVE FormatAgentResults_Full(_)
FormatAgentResults_Full(results) ==
    IF results = <<>> THEN <<>>
    ELSE <<Ch("=== "), Upper(Head(results).name), Ch(" ==="),
           Json(Head(results).value)>>
         \o FormatAgentResults_Full(Tail(results))

\* _format_agent_results: a heading and the conclusion of each result, in dict order
RECURSIVE FormatAgentResults(_)
FormatAgentResults(results) ==
    IF results = <<>> THEN <<>>
    ELSE <<Ch("=== "), Upper(Head(results).name), Ch(" ==="),
           Json(Head(results).value.conclusion)>>
         \o FormatAgentResults(Tail(results))

\* synthesis_prompt of coordinate_prediction
FinalPrompt(args, results) ==
    <<Ch("You coordinated a multi-agent prediction for flight "), Ch(args.flight_number),
      Ch("Agent Results:")>>
    \o FormatAgentResults(results)
    \o <<Ch("Synthesize these findings into: ... Output as JSON")>>

\* a delegation that walks self.specialists in insertion order
NextStage_Registration(st, sp) ==
    LET at == IF st = "director" THEN 0
              ELSE CHOOSE i \in 1..Len(sp) : sp[i].name = st
        later == {j \in (at + 1)..Len(sp) :
                     \E k \in 1..Len(Delegation) : Delegation[k] = sp[j].name}
    IN IF later = {} THEN "final"
       ELSE sp[CHOOSE j \in later : \A k \in later : j <= k].name

\* a delegation that goes on with the last registered name of the four,
\* leaving out the names between
NextStage_Last(st, sp) ==
    LET at == IF st = "director" THEN 0
              ELSE CHOOSE i \in 1..Len(Delegation) : Delegation[i] = st
        later == {j \in (at + 1)..Len(Delegation) : HasTool(sp, Delegation[j])}
    IN IF later = {} THEN "final"
       ELSE Delegation[CHOOSE j \in later : \A k \in later : k <= j]

\* a delegation that goes from the Director's own analysis to the final call
NextStage_None(st, sp) == "final"

\* the stage after stage st ("director" or one of the four names): the next
\* name of Delegation that is a key of self.specialists, or "final"
NextStage(st, sp) ==
    LET at == IF st = "director" THEN 0
              ELSE CHOOSE i \in 1..Len(Delegation) : Delegation[i] = st
        later == {j \in (at + 1)..Len(Delegation) : HasTool(sp, Delegation[j])}
    IN IF later = {} THEN "final"
       ELSE Delegation[CHOOSE j \in later : \A k \in later : j <= k]

\* self.specialists[name]
SpecialistOf(sp, name) == ToolOf(sp, name).agent

\* a decide_and_act call of coordinate_prediction is running
Delegating == cp_pc \in {"director"} \cup {Delegation[i] : i \in 1..Len(Delegation)}

\* register_specialist(name, agent)
RegisterSpecialist(name, a) ==
    /\ cp_pc = "idle"
    /\ specialists' = DictSet(specialists, [name |-> name, agent |-> a])
    /\ UNCHANGED <<agents, self, cp_pc, cp_args, cp_decision, agent_results, report>>
    /\ UNCHANGED <<clock, pc, task, sent, response, llm_ret, decision, decision_json,
                   todo, tool_results, synthesis, result, calls>>
    /\ UNCHANGED wvars

\* agent a's decide_and_act(t) is entered: up to the request of the planning
\* call_llm being posted
Call(a, t) ==
    /\ agents' = Remember(agents, a, "user", t, clock)
    /\ clock' = clock + 1
    /\ self' = a
    /\ task' = t
    /\ sent' = MessagesOf(a, agents'[a].memory, DecisionPrompt(t, agents[a].tools))
    /\ pc' = "plan_wait"
    /\ decision' = <<>>
    /\ decision_json' = None
    /\ todo' = <<>>
    /\ tool_results' = <<>>
    /\ synthesis' = <<>>
    /\ result' = NoResult
    /\ calls' = [calls EXCEPT !.tasks = @ + 1, !.llm = @ + 1]
    /\ UNCHANGED <<response, llm_ret>>

\* coordinate_prediction(flight_number, origin, destination, departure_time),
\* up to the planning request of self.decide_and_act(task_description)
Coordinate(flight_number, origin, destination, departure_time) ==
    /\ cp_pc = "idle"
    /\ cp_args' = [flight_number |-> flight_number, origin |-> origin,
                   destination |-> destination, departure_time |-> departure_time]
    /\ cp_pc' = "director"
    /\ Call(Director, TaskDescription(cp_args'))
    /\ UNCHANGED <<specialists, cp_decision, agent_results, report>>
    /\ UNCHANGED wvars

\* one iteration of the tool loop of the running agent
AgentActStep ==
    /\ Delegating
    /\ pc = "acting"
    /\ todo # <<>>
    /\ LET step == RunTool(agents[self].tools, Head(todo), tool_results)
       IN IF step.raised
          THEN /\ pc' = "raised"
               /\ result' = [ty |-> "raised", exc |-> step.exc]
               /\ UNCHANGED <<todo, tool_results>>
          ELSE /\ tool_results' = step.results
               /\ todo' = Tail(todo)
               /\ UNCHANGED <<pc, result>>
    /\ UNCHANGED <<clock, task, sent, response, llm_ret, decision, decision_json,
                   synthesis, calls>>
    /\ UNCHANGED dvars
    /\ UNCHANGED wvars

\* the tool loop of the running agent is over: its synthesis request is posted
AgentSynthSend ==
    /\ Delegating
    /\ pc = "acting"
    /\ todo = <<>>
    /\ sent' = MessagesOf(self, agents[self].memory, SynthesisPrompt(tool_results))
    /\ pc' = "synth_wait"
    /\ calls' = [calls EXCEPT !.llm = @ + 1]
    /\ UNCHANGED <<clock, task, response, llm_ret, decision, decision_json, todo,
                   tool_results, synthesis, result>>
    /\ UNCHANGED dvars
    /\ UNCHANGED wvars

\* the synthesis call_llm of the running agent returns: the synthesis is
\* parsed, the task recorded, the agent's memory told, the result returned
AgentSynthResponse(r) ==
    /\ Delegating
    /\ pc = "synth_wait"
    /\ response' = r
    /\ llm_ret' = CallLlm(r)
    /\ IF llm_ret'.raised
       THEN /\ pc' = "raised"
            /\ result' = [ty |-> "raised", exc |-> "RequestException"]
            /\ UNCHANGED <<synthesis, agents, clock>>
       ELSE /\ synthesis' = llm_ret'.text
            /\ LET synthesis_json == ParseSynthesis(synthesis')
                   content == CompletedContent(synthesis_json)
                   recorded == [agents EXCEPT ![self].task_history =
                                   Append(@, TaskRecord(clock, task, decision_json,
                                                        tool_results, synthesis_json))]
               IN /\ agents' = Remember(recorded, self, "assistant", content, clock + 1)
                  /\ result' = Returned(self, decision_json, tool_results,
                                         synthesis_json, clock + 2)
            /\ clock' = clock + 3
            /\ pc' = "done"
    /\ UNCHANGED <<task, sent, decision, decision_json, todo, tool_results, calls>>
    /\ UNCHANGED <<specialists, self, cp_pc, cp_args, cp_decision, agent_results, report>>
    /\ UNCHANGED wvars

\* the running decide_and_act returned: its result is kept (decision, or
\* agent_results[key]); the next if whose name is registered calls its
\* worker, or, after the last if, the final call_llm request is posted
Delegate ==
    /\ Delegating
    /\ pc = "done"
    /\ cp_decision' = IF cp_pc = "director" THEN result ELSE cp_decision
    /\ agent_results' = IF cp_pc = "director" THEN agent_results
                        ELSE DictSet(agent_results,
                                     [name |-> ResultKey(cp_pc), value |-> result])
    /\ cp_pc' = NextStage(cp_pc, specialists)
    /\ IF cp_pc' = "final"
       THEN /\ sent' = MessagesOf(Director, agents[Director].memory,
                                  FinalPrompt(cp_args, agent_results'))
            /\ self' = Director
            /\ pc' = "idle"
            /\ calls' = [calls EXCEPT !.llm = @ + 1]
            /\ UNCHANGED <<agents, clock, task, response, llm_ret, decision,
                           decision_json, todo, tool_results, synthesis, result>>
       ELSE Call(SpecialistOf(specialists, cp_pc'), SubTask(cp_pc', cp_args))
    /\ UNCHANGED <<specialists, cp_args, report>>
    /\ UNCHANGED wvars

\* the running decide_and_act raised: nothing in coordinate_prediction catches
\* it, the exception leaves coordinate_prediction
Propagate ==
    /\ Delegating
    /\ pc = "raised"
    /\ cp_pc' = "raised"
    /\ report' = [ty |-> "raised", exc |-> result.exc]
    /\ UNCHANGED <<agents, specialists, self, cp_args, cp_decision, agent_results>>
    /\ UNCHANGED <<clock, pc, task, sent, response, llm_ret, decision, decision_json,
                   todo, tool_results, synthesis, result, calls>>
    /\ UNCHANGED wvars

\* the final call_llm returns: the assessment is parsed and the report returned
FinalResponse(r) ==
    /\ cp_pc = "final"
    /\ response' = r
    /\ llm_ret' = CallLlm(r)
    /\ IF llm_ret'.raised
       THEN /\ cp_pc' = "raised"
            /\ report' = [ty |-> "raised", exc |-> "RequestException"]
       ELSE /\ cp_pc' = "done"
            /\ report' = [ty |-> "returned",
                          flight_number |-> cp_args.flight_number,
                          route |-> <<cp_args.origin, cp_args.destination>>,
                          departure_time |-> cp_args.departure_time,
                          director_analysis |-> cp_decision,
                          specialist_reports |-> agent_results,
                          final_assessment |-> ParseAssessment(llm_ret'.text),
                          timestamp |-> cp_decision.timestamp,
                          coordinated_by |-> Director]
    /\ UNCHANGED <<agents, specialists, self, cp_args, cp_decision, agent_results>>
    /\ UNCHANGED <<clock, pc, task, sent, decision, decision_json, todo, tool_results,
                   synthesis, result, calls>>
    /\ UNCHANGED wvars

-----------------------------------------------------------------------------
(* The environment: tasks, registrations, what the oracle answers *)

Tasks == {<<Ch("Analyze current and forecast weather for DXB and LHR")>>}

\* a run of characters without braces
X == Ch("I think weather is fine")
Alphabet == {LBrace, RBrace, X}

\* every text of at most two tokens over the braces and prose, and "{prose}"
BraceTexts ==
    {<<>>} \cup {<<a>> : a \in Alphabet} \cup {<<a, b>> : a, b \in Alphabet}
    \cup {<<LBrace, X, RBrace>>}

Kw(code) == JObj([airport_code |-> JStr(code)])
Entry(name, params) == JObj([tool |-> JStr(name), parameters |-> params])

\* well-formed tools_to_use entries: a tool with its keyword, a tool without
\* parameters, a tool the oracle imagined
GoodEntries ==
    { Entry("get_current_weather", Kw("DXB")),
      JObj([tool |-> JStr("get_forecast")]),
      Entry("imagined_tool", Kw("LHR")) }

SeqsUpTo(S, n) == UNION {[1..k -> S] : k \in 0..n}

\* well-formed JSON whose tools_to_use is not a list of {tool, parameters} objects
OddTools ==
    { JNum(5), None, JStr(""), JStr("get_forecast"), EmptyDict,
      JList(<<JStr("get_current_weather")>>),
      JList(<<Entry("get_current_weather", Kw("DXB")),
              Entry("get_current_weather", JStr("DXB"))>>),
      JList(<<Entry("imagined_tool", JStr("DXB"))>>),
      JList(<<JObj([tool |-> JList(<<>>)])>>),
      JList(<<JObj([parameters |-> Kw("DXB")])>>) }

ToolsValues == {JList(l) : l \in SeqsUpTo(GoodEntries, MaxPlan)} \cup OddTools

Reasoning == Member("reasoning", JStr("check the weather first"))

PlanTexts ==
    BraceTexts
    \cup {<<LBrace, Member("tools_to_use", v), RBrace>> : v \in ToolsValues}
    \cup {<<X, LBrace, Reasoning, Member("tools_to_use", JList(l)), RBrace, X>> :
             l \in SeqsUpTo(GoodEntries, 1)}
    \cup { <<LBrace, Reasoning, RBrace>>,
           <<LBrace, Reasoning, RBrace, LBrace, Reasoning, RBrace>>,
           <<LBrace, Reasoning, RBrace, X, RBrace>>,
           <<LBrace, X, LBrace, Reasoning, RBrace>> }

SynthTexts ==
    { <<X>>, <<LBrace, RBrace>>, <<LBrace, X, RBrace>>, <<RBrace, X, LBrace>>,
      <<LBrace, Member("insights", JStr("clear skies")),
                Member("confidence", JNum(85)), RBrace>>,
      <<X, LBrace, Member("confidence", JStr("85")), RBrace, X>>,
      <<LBrace, Member("confidence", JNum(85)), RBrace, X, RBrace>> }

\* str(e) of the exceptions requests raises
ExcMessages ==
    { <<Ch("Connection refused")>>,
      <<Ch("Failed to parse: http://"), LBrace, Ch("host"), RBrace, Ch(":11434/api/chat")>> }

HttpFailures ==
    {HttpStatus(500), HttpStatus(204), HttpNotJson} \cup {HttpException(m) : m \in ExcMessages}

PlanOutcomes == {HttpContent(t) : t \in PlanTexts} \cup {HttpNoMessage} \cup HttpFailures
SynthOutcomes == {HttpContent(t) : t \in SynthTexts} \cup HttpFailures

\* the few answers SpecMemory explores
MemPlanOutcomes ==
    { HttpContent(<<X>>),
      HttpContent(<<LBrace, Member("tools_to_use",
                                   JList(<<Entry("imagined_tool", Kw("LHR"))>>)), RBrace>>),
      HttpStatus(500) }
MemSynthOutcomes ==
    { HttpContent(<<X>>),
      HttpContent(<<LBrace, Member("confidence", JNum(85)), RBrace>>) }

-----------------------------------------------------------------------------
(* Specifications *)

\* the tasks decide_and_act was called with so far
Submitted == {appended[i].content : i \in {j \in 1..Len(appended) : appended[j].role = "user"}}

\* one worker: registrations, direct memory writes and decide_and_act calls,
\* with every answer of the oracle; each task of Tasks is submitted once
Next ==
    \/ /\ calls.regs < MaxRegs
       /\ \E n \in ToolNames, f \in ToolFns :
              RegisterTool(n, "describes the tool", f, "schema")
    \/ /\ calls.appends < MaxAppends
       /\ \E role \in {"system"} :
              AddToMemoryCall(role, <<Ch("a note")>>)
    \/ \E t \in Tasks \ Submitted : Start(t)
    \/ \E r \in PlanOutcomes : PlanResponse(r)
    \/ ActStep
    \/ SynthSend
    \/ \E r \in SynthOutcomes : SynthResponse(r)

Spec == Init /\ [][Next]_vars

\* one worker whose memory fills up: many memory writes, a few decide_and_act
\* calls with a few answers
NextMemory ==
    \/ /\ Len(appended) < MemAppends
       /\ AddToMemoryCall("system", <<Ch("a note")>>)
    \/ /\ calls.tasks < MemTasks
       /\ Len(appended) < MemAppends
       /\ \E t \in Tasks : Start(t)
    \/ \E r \in MemPlanOutcomes : PlanResponse(r)
    \/ ActStep
    \/ SynthSend
    \/ \E r \in MemSynthOutcomes : SynthResponse(r)

SpecMemory == Init /\ [][NextMemory]_vars

\* the few answers SpecHistory explores: prose, a plan that uses a tool, a plan
\* whose tools_to_use is null; syntheses in JSON with the same confidence and
\* with none, an HTTP 500
HistPlanOutcomes ==
    { HttpContent(<<X>>),
      HttpContent(<<LBrace, Reasoning,
                    Member("tools_to_use",
                           JList(<<Entry("get_current_weather", Kw("DXB"))>>)), RBrace>>),
      HttpContent(<<LBrace, Member("tools_to_use", None), RBrace>>) }
HistSynthOutcomes ==
    { HttpContent(<<LBrace, Member("insights", JStr("clear skies")),
                            Member("confidence", JNum(85)), RBrace>>),
      HttpContent(<<LBrace, Member("insights", JStr("storms ahead")),
                            Member("confidence", JNum(85)), RBrace>>),
      HttpContent(<<LBrace, Member("insights", JStr("clear skies")), RBrace>>),
      HttpStatus(500) }

\* one worker that runs several tasks: its task history grows
NextHistory ==
    \/ /\ ~HasTool(tools, "get_current_weather")
       /\ \E f \in ToolFns :
              RegisterTool("get_current_weather", "describes the tool", f, "schema")
    \/ /\ calls.appends < calls.tasks
       /\ AddToMemoryCall("system", <<Ch("a note")>>)
    \/ /\ calls.tasks < HistTasks
       /\ \E t \in Tasks : Start(t)
    \/ \E r \in HistPlanOutcomes : PlanResponse(r)
    \/ ActStep
    \/ SynthSend
    \/ \E r \in HistSynthOutcomes : SynthResponse(r)

SpecHistory == Init /\ [][NextHistory]_vars

\* the names workers are registered under: the four coordinate_prediction
\* looks up and one it does not
SpecialistNames == {Delegation[i] : i \in 1..Len(Delegation)} \cup {"fuel_specialist"}

\* the answers SpecDirector explores for the calls of decide_and_act: a plan
\* that names a weather tool, a plan whose tools_to_use is null; a synthesis
\* in JSON, an HTTP 500
DirPlanOutcomes ==
    { HttpContent(<<LBrace, Reasoning,
                    Member("tools_to_use",
                           JList(<<Entry("get_current_weather", Kw("DXB"))>>)), RBrace>>),
      HttpContent(<<LBrace, Member("tools_to_use", None), RBrace>>) }
DirSynthOutcomes ==
    { HttpContent(<<LBrace, Member("insights", JStr("clear skies")),
                            Member("confidence", JNum(85)), RBrace>>),
      HttpStatus(500) }

\* the answers to the final call_llm: assessments with a probability inside
\* and outside [0, 1] and without one; texts with no JSON object; failures
\* of the exchange
FinalTexts ==
    { <<X, LBrace, Member("delay_probability", JFloat(7)),
           Member("risk_level", JStr("HIGH")), Member("confidence", JNum(85)), RBrace>>,
      <<LBrace, Member("delay_probability", JNum(72)), RBrace>>,
      <<LBrace, Member("risk_level", JStr("HIGH")), RBrace>>,
      <<X>>,
      <<LBrace, X, RBrace>> }
FinalOutcomes ==
    {HttpContent(t) : t \in FinalTexts}
    \cup {HttpStatus(500),
          HttpException(<<Ch("Failed to parse: http://"), LBrace, Ch("host"), RBrace,
                          Ch(":11434/api/chat")>>)}

\* the Director: workers are registered, then one request is coordinated,
\* with a few answers of the oracle to every call_llm
NextDirector ==
    \/ /\ Len(specialists) < MaxSpecialists
       /\ \E n \in SpecialistNames, a \in Workers : RegisterSpecialist(n, a)
    \/ Coordinate("EK230", "DXB", "LHR", "2025-01-15T14:30:00")
    \/ /\ Delegating
       /\ \E r \in DirPlanOutcomes : PlanResponse(r)
    \/ AgentActStep
    \/ AgentSynthSend
    \/ \E r \in DirSynthOutcomes : AgentSynthResponse(r)
    \/ Delegate
    \/ Propagate
    \/ \E r \in FinalOutcomes : FinalResponse(r)

SpecDirector == Init /\ [][NextDirector]_vars

-----------------------------------------------------------------------------
(* Properties *)

Min(a, b) == IF a < b THEN a ELSE b
StartsWith(t, prefix) == Len(t) >= Len(prefix) /\ SubSeq(t, 1, Len(prefix)) = prefix

\* C1: decide_and_act never raises to its caller, whatever the oracle answers
\* and whatever the tools do.
C1_NeverRaises == pc # "raised"

\* C2: the memory never holds more than max_memory = 10 entries.
C2_MemoryBounded == Len(memory) <= max_memory

\* the cap has been reached by both add_to_memory and decide_and_act, and
\* entries have been evicted
C2_Witness ==
    /\ Len(memory) = max_memory
    /\ Len(appended) > max_memory
    /\ calls.tasks > 0
    /\ calls.appends > 0

\* C3: after n appends the memory is the last min(10, n) appended entries, in
\* the order of their appending (so the entry dropped by the 11th and every
\* later append is the oldest one held).
C3_Fifo ==
    LET n == Len(appended)
        k == Min(max_memory, n)
    IN /\ Len(memory) = k
       /\ \A i \in 1..k : memory[i] = appended[n - k + i]

\* two entries have been evicted
C3_Witness ==
    /\ Len(appended) = max_memory + 2
    /\ memory[1] = appended[3]
    /\ memory[1] # appended[1]

\* C4: the messages call_llm posts are the system prompt, then the
\* min(5, len(memory)) newest memory entries in their order, then the prompt
\* as the user message: min(5, len(memory)) + 2 messages.
C4_Messages ==
    pc \in {"plan_wait", "synth_wait"} =>
        LET k == Min(recent_window, Len(memory))
            prompt == IF pc = "plan_wait" THEN DecisionPrompt(task, tools)
                      ELSE SynthesisPrompt(tool_results)
        IN /\ Len(sent) = k + 2
           /\ sent[1] = [role |-> "system", content |-> SystemPrompt]
           /\ \A i \in 1..k :
                  /\ sent[1 + i].role = memory[Len(memory) - k + i].role
                  /\ sent[1 + i].content = memory[Len(memory) - k + i].content
           /\ sent[k + 2] = [role |-> "user", content |-> prompt]

\* a request is pending whose window is smaller than the full memory
C4_Witness ==
    /\ pc = "synth_wait"
    /\ Len(memory) = max_memory
    /\ Len(sent) = recent_window + 2

\* the entry names a registered tool, gives it a mapping, and the bound
\* function raises on it
BoundFunctionRaises(e) ==
    /\ e.ty = "obj"
    /\ "tool" \in DOMAIN e.o
    /\ e.o["tool"].ty = "str"
    /\ HasTool(tools, e.o["tool"].s)
    /\ Get(e, "parameters", EmptyDict).ty = "obj"
    /\ CallFunction(ToolOf(tools, e.o["tool"].s).function,
                    Get(e, "parameters", EmptyDict)).raised

IsErrorValue(v) == v.ty = "obj" /\ DOMAIN v.o = {"error"} /\ v.o["error"].ty = "text"

\* C5: when the bound function of the tool being invoked raises, the tool loop
\* goes on and the invocation is recorded with a result {error: message}.
C5_ToolFailureContained ==
    [][ (pc = "acting" /\ todo # <<>> /\ BoundFunctionRaises(Head(todo)))
        => /\ pc' = "acting"
           /\ todo' = Tail(todo)
           /\ Len(tool_results') = Len(tool_results) + 1
           /\ tool_results'[Len(tool_results')].tool = Head(todo).o["tool"]
           /\ IsErrorValue(tool_results'[Len(tool_results')].result) ]_vars

\* a call has returned after a tool of it failed
C5_Witness ==
    /\ pc = "done"
    /\ result.ty = "returned"
    /\ \E i \in 1..Len(result.actions) :
           /\ IsErrorValue(result.actions[i].result)
           /\ ToolOf(tools, result.actions[i].tool.s).function = "failing"
           /\ DOMAIN result.actions[i].parameters.o = {"airport_code"}

\* C6: a registered tool is never replaced: every step leaves each tool of the
\* registry as it was (register_tool of a registered name changes nothing).
C6_NeverReplaced ==
    [][ \A i \in 1..Len(tools) : i <= Len(tools') /\ tools'[i] = tools[i] ]_vars

\* the HTTP exchange of the last call_llm failed: an exception of requests
\* (connection, timeout) or a status outside 2xx
TransportFailure == response.kind = "exception"
Non2xx == response.kind = "status" /\ response.code \notin 200..299

\* C7 as stated: after a failed exchange call_llm has returned a text that
\* begins with "Error:".
C7_ErrorColonSentinel ==
    (TransportFailure \/ Non2xx) =>
        /\ ~llm_ret.raised
        /\ StartsWith(llm_ret.text, <<Ch("Error"), Ch(":")>>)

\* C7 as amended: call_llm never raises; after a status outside 2xx it has
\* returned a text that begins with "Error:", after an exception of requests a
\* text that begins with "Error calling LLM:".
C7_ErrorSentinel ==
    /\ ~llm_ret.raised
    /\ Non2xx => StartsWith(llm_ret.text, <<Ch("Error"), Ch(":")>>)
    /\ TransportFailure =>
           /\ StartsWith(llm_ret.text, <<Ch("Error"), Ch(" calling LLM"), Ch(":")>>)
           /\ ~StartsWith(llm_ret.text, <<Ch("Error"), Ch(":")>>)

\* requests raised and call_llm returned its sentinel
C7_Witness ==
    /\ TransportFailure
    /\ llm_ret = [raised |-> FALSE, text |-> ExceptionSentinel(response.text)]
    /\ pc = "acting"
    /\ decision = llm_ret.text

\* the text has no "{", no "}" after its first "{", or the part from its first
\* "{" to its last "}" is not a JSON object
NoParse(t) ==
    LET opens == {i \in 1..Len(t) : t[i] = LBrace}
        closes == {i \in 1..Len(t) : t[i] = RBrace}
    IN \/ opens = {}
       \/ \A j \in closes : \E i \in opens : j < i
       \/ LET first == CHOOSE i \in opens : \A k \in opens : i <= k
              last == CHOOSE j \in closes : \A k \in closes : k <= j
          IN ~JsonValid(SubSeq(t, first, last))

\* C8: a planning text that does not parse gives the plan with no tools and
\* the text as reasoning; no tool is invoked, the call does not raise, is never
\* stuck, and returns the text as its reasoning.
C8_PlanFallback ==
    (pc \in {"acting", "synth_wait", "done", "raised"} /\ NoParse(decision)) =>
        /\ pc # "raised"
        /\ Get(decision_json, "tools_to_use", None) = JList(<<>>)
        /\ Get(decision_json, "reasoning", None) = JText(decision)
        /\ todo = <<>>
        /\ tool_results = <<>>
        /\ pc = "acting" => ENABLED SynthSend
        /\ pc = "synth_wait" => ENABLED SynthResponse(HttpContent(<<X>>))
        /\ pc = "done" => /\ result.ty = "returned"
                          /\ result.reasoning = JText(decision)
                          /\ result.actions = <<>>

\* a call has returned whose planning text had braces around something that
\* is no JSON
C8_Witness ==
    /\ pc = "done"
    /\ result.ty = "returned"
    /\ Find(decision, LBrace) # -1
    /\ RFind(decision, RBrace) > Find(decision, LBrace)
    /\ NoParse(decision)
    /\ result.reasoning = JText(decision)

\* C9: a synthesis text that does not parse gives the conclusion
\* {insights: text, confidence: 50}; so does every error sentinel of call_llm.
C9_SynthesisFallback ==
    [][ (pc = "synth_wait" /\ pc' = "done") =>
          /\ NoParse(synthesis') =>
                 result'.conclusion =
                     JObj([insights |-> JText(synthesis'), confidence |-> JNum(50)])
          /\ (response' \in HttpFailures) =>
                 /\ Get(result'.conclusion, "confidence", None) = JNum(50)
                 /\ Get(result'.conclusion, "insights", None) = JText(llm_ret'.text) ]_vars

\* a call has returned whose synthesis call_llm gave the sentinel of an
\* exception whose message holds braces
C9_Witness ==
    /\ pc = "done"
    /\ response.kind = "exception"
    /\ Find(synthesis, LBrace) # -1
    /\ result.conclusion = JObj([insights |-> JText(synthesis), confidence |-> JNum(50)])

\* the entry names a tool of the registry ts
Registered(ts, e) ==
    /\ e.ty = "obj"
    /\ "tool" \in DOMAIN e.o
    /\ e.o["tool"].ty = "str"
    /\ \E i \in 1..Len(ts) : ts[i].name = e.o["tool"].s

\* one {tool, parameters, result} per entry of l that names a tool of ts
RECURSIVE Invocations(_, _)
Invocations(ts, l) ==
    IF l = <<>> THEN <<>>
    ELSE LET e == Head(l)
             params == Get(e, "parameters", EmptyDict)
         IN IF Registered(ts, e)
            THEN <<[tool |-> e.o["tool"],
                    parameters |-> params,
                    result |-> IF params.ty = "obj"
                               THEN Execute(ToolOf(ts, e.o["tool"].s), params).value
                               ELSE None]>>
                 \o Invocations(ts, Tail(l))
            ELSE Invocations(ts, Tail(l))

\* C10: the actions decide_and_act returns are the entries of the plan's
\* tools_to_use that name a registered tool, in the listed order, one per such
\* entry, each with the value its tool returned; the other entries leave no trace.
C10_Actions ==
    [][ (pc = "synth_wait" /\ pc' = "done") =>
          /\ result'.ty = "returned"
          /\ result'.actions =
                 Invocations(tools, Items(Get(decision_json, "tools_to_use", JList(<<>>))))
          /\ task_history'[Len(task_history')].tool_results = result'.actions ]_vars

\* a call has returned whose plan listed a tool the registry does not hold and
\* then a registered one, which answered
C10_Witness ==
    /\ pc = "done"
    /\ result.ty = "returned"
    /\ LET listed == Items(Get(decision_json, "tools_to_use", JList(<<>>)))
       IN /\ Len(listed) = 2
          /\ ~Registered(tools, listed[1])
          /\ Registered(tools, listed[2])
          /\ Len(result.actions) = 1
          /\ result.actions[1].tool = listed[2].o["tool"]
          /\ ~IsErrorValue(result.actions[1].result)

-----------------------------------------------------------------------------
\* the step on which a decide_and_act call returns
Completes == pc = "synth_wait" /\ pc' = "done"

\* lst is the beginning of lst2
IsPrefix(lst, lst2) == Len(lst) <= Len(lst2) /\ SubSeq(lst2, 1, Len(lst)) = lst

\* C11: each completed decide_and_act appends exactly one record to
\* task_history, holding the task passed in and the actions and conclusion
\* returned; no step removes, reorders or rewrites an earlier record, and no
\* other step appends one.
C11_TaskRecorded ==
    [][ /\ IsPrefix(task_history, task_history')
        /\ Completes =>
              /\ Len(task_history') = Len(task_history) + 1
              /\ LET rec == task_history'[Len(task_history')]
                 IN /\ rec.task = task
                    /\ task \in Tasks
                    /\ rec.tool_results = result'.actions
                    /\ rec.synthesis = result'.conclusion
        /\ ~Completes => task_history' = task_history ]_vars

\* a second task completed after tools ran: two records, the last one with
\* the tool invocation that was returned
C11_Witness ==
    /\ pc = "done"
    /\ Len(task_history) = 2
    /\ result.ty = "returned"
    /\ Len(result.actions) = 1
    /\ task_history[2].tool_results = result.actions
    /\ task_history[2].synthesis = result.conclusion
    /\ task_history[1].synthesis # task_history[2].synthesis

-----------------------------------------------------------------------------
(* Properties of coordinate_prediction *)

\* the coordinate_prediction call has ended: it returned or it raised
Ended == cp_pc \in {"done", "raised"}

\* C12: one coordinate_prediction call with W registered workers makes exactly
\* 2 * W + 2 call_llm calls: a plan and a synthesis call per registered
\* worker, the Director's decomposition call and the final synthesis call.
C12_GatewayCalls ==
    cp_pc = "done" => calls.llm = 2 * Len(specialists) + 2

\* the names coordinate_prediction looks up that are registered
LookedUp == {n \in {Delegation[i] : i \in 1..Len(Delegation)} : HasTool(specialists, n)}

\* C12, amended: with R of the four looked-up names registered, a
\* coordinate_prediction call makes at most 2 * R + 3 call_llm calls, and
\* exactly 2 * R + 3 when it returns: two for the Director's own
\* decide_and_act, two per worker run, one for the final synthesis.
C12_GatewayCallsMade ==
    /\ calls.llm <= 2 * Cardinality(LookedUp) + 3
    /\ cp_pc = "done" => calls.llm = 2 * Cardinality(LookedUp) + 3
    /\ cp_pc = "final" => calls.llm = 2 * Cardinality(LookedUp) + 3
    /\ Delegating => calls.llm < 2 * Cardinality(LookedUp) + 3

\* a call returned with two workers registered, one of them under a name
\* that is not looked up
C12_Witness ==
    /\ cp_pc = "done"
    /\ Len(specialists) = 2
    /\ Cardinality(LookedUp) = 1
    /\ calls.llm = 5

\* C13: coordinate_prediction with zero registered workers does not raise; it
\* returns a report with empty specialist_reports and a final_assessment that
\* is the parsed final text or the fallback verdict.
C13_ZeroWorkers ==
    (specialists = <<>> /\ cp_pc # "idle") =>
        /\ cp_pc # "raised"
        /\ cp_pc = "done" =>
              /\ report.ty = "returned"
              /\ report.specialist_reports = <<>>
              /\ report.final_assessment = ParseAssessment(llm_ret.text)

\* the decide_and_act calls made on agent a: each one adds a user entry
RunsOf(a) ==
    Cardinality({i \in 1..Len(agents[a].memory) : agents[a].memory[i].role = "user"})

\* C14: coordinate_prediction runs decide_and_act exactly once on every worker
\* present in self.specialists, whatever name the worker is registered under.
C14_EveryWorkerOnce ==
    Ended => \A i \in 1..Len(specialists) : RunsOf(specialists[i].agent) = 1

\* the user entry the run of the worker registered under name n starts with
StartEntries(n) ==
    IF HasTool(specialists, n)
    THEN LET mem == agents[SpecialistOf(specialists, n)].memory
         IN {i \in 1..Len(mem) :
                mem[i].role = "user" /\ mem[i].content = SubTask(n, cp_args)}
    ELSE {}

\* the run of the worker registered under n has started / when it started
Started(n) == StartEntries(n) # {}
StartTime(n) ==
    agents[SpecialistOf(specialists, n)].memory[CHOOSE i \in StartEntries(n) : TRUE].timestamp

\* the run of the worker registered under n has returned to
\* coordinate_prediction / when it returned
Finished(n) == HasTool(agent_results, ResultKey(n))
FinishTime(n) == ToolOf(agent_results, ResultKey(n)).value.timestamp

\* the places of self.specialists whose name coordinate_prediction looks up
LookedUpAt == {i \in 1..Len(specialists) : specialists[i].name \in LookedUp}

\* C15: the workers are run in the order of their registration: if A was
\* registered before B, A's run starts and finishes before B's run starts.
C15_RegistrationOrder ==
    \A i, j \in LookedUpAt :
        (i < j /\ Started(specialists[j].name)) =>
            /\ Finished(specialists[i].name)
            /\ FinishTime(specialists[i].name) < StartTime(specialists[j].name)

\* C15, amended: the workers are run in the fixed order weather_specialist,
\* flight_specialist, location_specialist, prediction_specialist of the names
\* they are registered under, whatever the order of registration: the run of a
\* worker under an earlier name starts and finishes before the run of a worker
\* under a later name starts, and all of them after the Director's own run.
C15_FixedOrder ==
    \A j \in 1..Len(Delegation) :
        Started(Delegation[j]) =>
            /\ cp_decision.ty = "returned"
            /\ cp_decision.timestamp < StartTime(Delegation[j])
            /\ \A i \in 1..(j - 1) :
                  Delegation[i] \in LookedUp =>
                      /\ Finished(Delegation[i])
                      /\ FinishTime(Delegation[i]) < StartTime(Delegation[j])

\* flight_specialist was registered before weather_specialist, and the weather
\* run returned before the flight run started
C15_Witness ==
    /\ cp_pc = "done"
    /\ Len(specialists) = 2
    /\ specialists[1].name = "flight_specialist"
    /\ specialists[2].name = "weather_specialist"
    /\ Finished("weather_specialist")
    /\ Finished("flight_specialist")
    /\ FinishTime("weather_specialist") < StartTime("flight_specialist")

\* the keys of a dict held in insertion order
Keys(d) == {d[i].name : i \in 1..Len(d)}

\* C16: specialist_reports maps worker name to worker result, with an entry
\* only for workers in the registry at delegation time, keyed by the name the
\* worker was registered under; a worker that is not registered is skipped and
\* causes no error.
C16_KeyedByName ==
    /\ cp_pc = "done" =>
          \A i \in 1..Len(report.specialist_reports) :
              /\ HasTool(specialists, report.specialist_reports[i].name)
              /\ report.specialist_reports[i].value.agent =
                     SpecialistOf(specialists, report.specialist_reports[i].name)
    /\ cp_pc = "raised" => pc = "raised"

\* the key under which the result of each looked-up name is filed
FixedKey ==
    [weather_specialist |-> "weather", flight_specialist |-> "flight_history",
     location_specialist |-> "location", prediction_specialist |-> "prediction"]

\* C16, amended: specialist_reports has exactly one entry for each of the
\* names weather_specialist, flight_specialist, location_specialist,
\* prediction_specialist registered at delegation time, under the fixed key
\* weather, flight_history, location, prediction (not the registration name),
\* holding what that worker's run returned; names that are not registered and
\* workers registered under other names have no entry, and the lookups
\* themselves raise nothing.
C16_FixedKeys ==
    /\ cp_pc = "done" =>
          /\ Keys(report.specialist_reports) = {FixedKey[n] : n \in LookedUp}
          /\ Len(report.specialist_reports) = Cardinality(LookedUp)
          /\ \A n \in LookedUp :
                LET r == ToolOf(report.specialist_reports, FixedKey[n]).value
                    w == SpecialistOf(specialists, n)
                IN /\ r.ty = "returned"
                   /\ r.agent = w
                   /\ \E k \in 1..Len(agents[w].task_history) :
                         /\ agents[w].task_history[k].task = SubTask(n, cp_args)
                         /\ agents[w].task_history[k].synthesis = r.conclusion
                         /\ agents[w].task_history[k].tool_results = r.actions
    /\ cp_pc = "raised" => pc = "raised"

\* a report came back with a worker under location_specialist and a worker
\* under a name that is not looked up
C16_Witness ==
    /\ cp_pc = "done"
    /\ Len(specialists) = 2
    /\ LookedUp = {"location_specialist"}
    /\ Keys(report.specialist_reports) = {"location"}

\* {delay_probability: 0.5, risk_level: "MODERATE", confidence: 50}
NeutralVerdict ==
    JObj([delay_probability |-> JFloat(5), risk_level |-> JStr("MODERATE"),
          confidence |-> JNum(50)])

\* the step on which the final call_llm returns
FinalStep == cp_pc = "final" /\ cp_pc' # "final"

\* C17: when the final text has no braces or its brace-delimited part does not
\* parse, and so for the error sentinels of call_llm, final_assessment is
\* exactly the neutral verdict and coordinate_prediction returns its report.
C17_FinalFallback ==
    [][ (FinalStep /\ (NoParse(llm_ret'.text) \/ TransportFailure' \/ Non2xx')) =>
            /\ cp_pc' = "done"
            /\ report'.ty = "returned"
            /\ report'.final_assessment = NeutralVerdict
            /\ report'.specialist_reports = agent_results
            /\ report'.director_analysis = cp_decision ]_vars

\* a report came back after the final call_llm returned a sentinel that holds
\* braces around something that is no JSON
C17_Witness ==
    /\ cp_pc = "done"
    /\ response.kind = "exception"
    /\ Find(llm_ret.text, LBrace) # -1
    /\ RFind(llm_ret.text, RBrace) > Find(llm_ret.text, LBrace)
    /\ report.final_assessment = NeutralVerdict
    /\ report.specialist_reports # <<>>

\* a number within [0, 1]
InUnit(p) ==
    \/ p.ty = "float" /\ p.tenths \in 0..10
    \/ p.ty = "num" /\ p.n \in 0..1

\* C18: for every answer of the oracle to the final synthesis call, the
\* final_assessment returned has a delay_probability within [0, 1].
C18_ProbabilityInUnit ==
    cp_pc = "done" =>
        InUnit(Get(report.final_assessment, "delay_probability", None))

\* a degraded placeholder {error, confidence: 0}
IsPlaceholder(v) ==
    /\ v.ty = "obj"
    /\ "error" \in DOMAIN v.o
    /\ Get(v, "confidence", None) = JNum(0)

\* C19: when the run of one worker raises, coordinate_prediction is not
\* aborted: it goes on to return a report in which the slot of the failed
\* worker holds a placeholder {error, confidence: 0}.
C19_WorkerFailureContained ==
    (self \in Workers /\ pc = "raised" /\ ~Delegating) =>
        /\ cp_pc \in {"final", "done"}
        /\ \E i \in 1..Len(agent_results) : IsPlaceholder(agent_results[i].value)

\* the elements of a list
Range(lst) == {lst[i] : i \in 1..Len(lst)}

\* C20: workers are isolated.  No step of a coordinate_prediction call changes
\* the memory, the tool registry or the task history of an agent other than
\* the one whose decide_and_act is running, and no two agents ever hold the
\* same memory entry or the same task record.
C20_Isolation ==
    /\ [][ \A a \in AgentIds :
               /\ a # self' => agents'[a] = agents[a]
               /\ agents'[a].tools = agents[a].tools ]_vars
    /\ [](\A a, b \in AgentIds :
              a # b =>
                  /\ Range(agents[a].memory) \cap Range(agents[b].memory) = {}
                  /\ Range(agents[a].task_history) \cap Range(agents[b].task_history) = {})

\* a call returned after the Director and two different workers have each run
\* a task, one of them with a tool
C20_Witness ==
    /\ cp_pc = "done"
    /\ Len(specialists) = 2
    /\ specialists[1].agent # specialists[2].agent
    /\ \A a \in AgentIds :
           /\ Len(agents[a].memory) = 2
           /\ Len(agents[a].task_history) = 1
    /\ agents["WeatherSpecialist"].task_history[1].tool_results # <<>>
    /\ agents["LocationSpecialist"].task_history[1].tool_results = <<>>


\* the step on which coordinate_prediction takes the value a decide_and_act
\* call returned
TakesResult == Delegating /\ pc = "done" /\ cp_pc' # cp_pc

\* what the final text gives: the neutral verdict, or the JSON object between
\* its first "{" and its last "}"
Verdict(text) ==
    IF NoParse(text) THEN NeutralVerdict
    ELSE JsonLoads(Slice(text, Find(text, LBrace), RFind(text, RBrace) + 1))

\* C21: the report bundles, unchanged, what was returned to
\* coordinate_prediction: director_analysis is the result of the Director's
\* own decide_and_act, specialist_reports holds the full result of each
\* delegated worker in the order the workers returned, final_assessment is
\* the verdict of the final call; nothing else writes these values.
C21_ReportBundles ==
    [][ /\ TakesResult =>
              IF cp_pc = "director"
              THEN /\ cp_decision' = result
                   /\ result.ty = "returned"
                   /\ result.agent = Director
                   /\ agent_results' = agent_results
              ELSE /\ cp_decision' = cp_decision
                   /\ result.ty = "returned"
                   /\ agent_results' =
                          Append(agent_results,
                                 [name |-> FixedKey[cp_pc], value |-> result])
        /\ ~TakesResult => UNCHANGED <<cp_decision, agent_results>>
        /\ (FinalStep /\ cp_pc' = "done") =>
              /\ report'.ty = "returned"
              /\ report'.director_analysis = cp_decision
              /\ report'.specialist_reports = agent_results
              /\ report'.final_assessment = Verdict(llm_ret'.text)
              /\ report'.timestamp = cp_decision.timestamp
        /\ ~FinalStep => report' = report \/ cp_pc' = "raised" ]_vars

\* a report with the Director's own result, the different results of two
\* workers, the first of which used a tool, and a verdict the oracle gave
C21_Witness ==
    /\ cp_pc = "done"
    /\ report.ty = "returned"
    /\ report.director_analysis.agent = Director
    /\ Len(report.specialist_reports) = 2
    /\ report.specialist_reports[1].value.actions # <<>>
    /\ report.specialist_reports[2].value.actions = <<>>
    /\ report.specialist_reports[1].value.agent # report.specialist_reports[2].value.agent
    /\ report.final_assessment # NeutralVerdict


-----------------------------------------------------------------------------
(* Properties of the phases of decide_and_act *)

\* the phase changes of a task that goes IDLE, PLANNING, ACTING, SYNTHESIZING,
\* DONE: a new task starts from IDLE or from the DONE of the task before
PhaseOrder ==
    {<<"idle", "plan_wait">>, <<"done", "plan_wait">>, <<"raised", "plan_wait">>,
     <<"plan_wait", "acting">>, <<"acting", "synth_wait">>, <<"synth_wait", "done">>}

\* C22: each task passes through IDLE, PLANNING, ACTING, SYNTHESIZING, DONE
\* once and in this order: every change of phase is the next one of the
\* order, the planning call_llm is made on entering PLANNING and the synthesis
\* call_llm on entering SYNTHESIZING, tools are invoked in ACTING only, and
\* the task record and the assistant entry are written on reaching DONE only.
C22_SinglePass ==
    [][ /\ pc' # pc => <<pc, pc'>> \in PhaseOrder
        /\ calls'.llm # calls.llm =>
              /\ calls'.llm = calls.llm + 1
              /\ pc' # pc
              /\ pc' \in {"plan_wait", "synth_wait"}
        /\ (pc' # pc /\ pc' \in {"plan_wait", "synth_wait"}) => calls'.llm = calls.llm + 1
        /\ Len(tool_results') > Len(tool_results) => pc = "acting" /\ pc' = "acting"
        /\ task_history' # task_history => Completes
        /\ (\E i \in 1..Len(memory') :
               memory'[i].role = "assistant" /\ memory'[i] \notin Range(memory)) => Completes
      ]_vars


-----------------------------------------------------------------------------
\* C23: coordinate_prediction is strictly sequential.  No worker runs before
\* the Director's own decide_and_act has returned; of two workers that have
\* started, one had returned before the other started; a worker that has
\* started and not returned is the one coordinate_prediction is waiting for;
\* and the final call_llm is made only when the run of every looked-up worker
\* has returned.
C23_Sequential ==
    /\ cp_pc \in {"idle", "director"} =>
          \A j \in 1..Len(Delegation) : ~Started(Delegation[j])
    /\ \A n \in LookedUp :
          Started(n) =>
              /\ cp_decision.ty = "returned"
              /\ cp_decision.timestamp < StartTime(n)
              /\ ~Finished(n) => cp_pc \in {n, "raised"}
    /\ \A m, n \in LookedUp :
          (m # n /\ Started(m) /\ Started(n)) =>
              \/ Finished(m) /\ FinishTime(m) < StartTime(n)
              \/ Finished(n) /\ FinishTime(n) < StartTime(m)
    /\ cp_pc \in {"final", "done"} =>
          \A n \in LookedUp :
              /\ Started(n)
              /\ Finished(n)
              /\ StartTime(n) < FinishTime(n)
              /\ FinishTime(n) < clock

\* the second of two workers is in its tool loop, after the first returned
C23_Witness ==
    /\ cp_pc = "location_specialist"
    /\ pc = "acting"
    /\ Cardinality(LookedUp) = 2
    /\ \E m \in LookedUp : m # cp_pc /\ Finished(m) /\ FinishTime(m) < StartTime(cp_pc)
    /\ Started(cp_pc)
    /\ ~Finished(cp_pc)


-----------------------------------------------------------------------------
(* Properties of the memory during decide_and_act *)

\* a call_llm request is posted and has not returned
Pending == pc \in {"plan_wait", "synth_wait"}

\* C24: a call_llm call leaves no partial memory mutation: within
\* decide_and_act the memory is appended to only on the step that resolves a
\* call_llm call, never before the call or while it is pending, and the call
\* changes neither tools nor task_history.
C24_OnlyAfterResolution ==
    [][ /\ (memory' # memory /\ ~(Idle /\ Idle')) => (Pending /\ ~Pending')
        /\ Pending => tools' = tools
        /\ (Pending /\ task_history' # task_history) => pc' = "done" ]_vars

\* C24, amended: call_llm itself changes neither memory, tools nor
\* task_history, and nothing is appended while a call is pending.  The task's
\* user entry is appended before the planning call is made; the planning call
\* and the posting of the synthesis request leave memory, tools and
\* task_history as they are; the assistant entry and the task record are
\* written only after the synthesis call has resolved, from its answer.
C24_AppendsAroundCalls ==
    [][ /\ (pc' = "plan_wait" /\ pc # "plan_wait") =>
              /\ memory' = Truncate(Append(memory, MemoryEntry("user", task', clock)))
              /\ UNCHANGED <<tools, task_history>>
        /\ (pc = "plan_wait" /\ pc' # "plan_wait") =>
              /\ llm_ret' = CallLlm(response')
              /\ UNCHANGED <<memory, tools, task_history>>
        /\ (pc' = "synth_wait" /\ pc # "synth_wait") =>
              UNCHANGED <<memory, tools, task_history>>
        /\ (pc = "synth_wait" /\ pc' # "synth_wait") =>
              /\ llm_ret' = CallLlm(response')
              /\ tools' = tools
              /\ IF pc' = "done"
                 THEN LET synthesis_json == ParseSynthesis(llm_ret'.text)
                      IN /\ memory' =
                                Truncate(Append(memory,
                                    MemoryEntry("assistant",
                                                CompletedContent(synthesis_json),
                                                clock + 1)))
                         /\ Len(task_history') = Len(task_history) + 1
                         /\ task_history'[Len(task_history')].synthesis = synthesis_json
                 ELSE UNCHANGED <<memory, task_history>>
        /\ (Pending /\ Pending') => UNCHANGED <<memory, tools, task_history>> ]_vars

\* a second task returned after its synthesis call resolved with the error
\* sentinel: its user entry and its assistant entry are the newest of memory
C24_Witness ==
    /\ pc = "done"
    /\ Len(task_history) = 2
    /\ response.kind = "status"
    /\ response.code # http_ok
    /\ memory[Len(memory) - 1].role = "user"
    /\ memory[Len(memory) - 1].content = task
    /\ memory[Len(memory)].role = "assistant"
    /\ memory[Len(memory)].content = CompletedContent(ParseSynthesis(llm_ret.text))


-----------------------------------------------------------------------------
\* the assistant entries ever appended, oldest first
AssistantEntries ==
    SelectSeq(appended, LAMBDA e : e.role = "assistant")

\* the confidence a synthesis holds, as the f-string prints it
ConfidenceText(synthesis_json) ==
    IF "confidence" \in DOMAIN synthesis_json.o
    THEN PyStr(synthesis_json.o["confidence"])
    ELSE <<Ch("N/A")>>

\* C25: the task text is appended as one user entry when the task starts, and
\* on completing the task exactly one assistant entry is appended, whose
\* content is "Completed task. Confidence: <confidence>%"; no other step of
\* decide_and_act appends an entry, and two tasks whose syntheses hold the
\* same confidence get the same content whatever else the syntheses hold.
C25_AssistantEntry ==
    /\ [][ /\ (pc' = "plan_wait" /\ pc # "plan_wait") =>
                 appended' = Append(appended, MemoryEntry("user", task', clock))
           /\ Completes =>
                 /\ Len(appended') = Len(appended) + 1
                 /\ LET e == appended'[Len(appended')]
                        rec == task_history'[Len(task_history')]
                    IN /\ e.role = "assistant"
                       /\ e.content = <<Ch("Completed task. Confidence: ")>>
                                      \o ConfidenceText(rec.synthesis) \o <<Ch("%")>>
                       /\ memory' = Truncate(Append(memory, e))
                       /\ \E i \in 1..Len(memory) :
                             memory[i].role = "user" /\ memory[i].content = rec.task
           /\ (~Completes /\ ~(Idle /\ Idle') /\ pc' # "plan_wait") =>
                 UNCHANGED <<appended, memory>> ]_vars
    /\ [](/\ Len(AssistantEntries) = Len(task_history)
          /\ \A i, j \in 1..Len(task_history) :
                ConfidenceText(task_history[i].synthesis)
                    = ConfidenceText(task_history[j].synthesis)
                => AssistantEntries[i].content = AssistantEntries[j].content)

\* two tasks completed with different syntheses of the same confidence, and
\* their assistant entries have the same content
C25_Witness ==
    /\ pc = "done"
    /\ Len(task_history) = 2
    /\ task_history[1].synthesis # task_history[2].synthesis
    /\ Get(task_history[1].synthesis, "confidence", None) = JNum(85)
    /\ Get(task_history[2].synthesis, "confidence", None) = JNum(85)
    /\ Len(AssistantEntries) = 2
    /\ AssistantEntries[1].content = AssistantEntries[2].content
    /\ memory[Len(memory)] = AssistantEntries[2]


-----------------------------------------------------------------------------
(* Properties of the final prompt of coordinate_prediction *)

\* what is left of the results when only key and conclusion are kept
ConclusionsOf(results) ==
    [i \in 1..Len(results) |->
        [name |-> results[i].name, conclusion |-> results[i].value.conclusion]]

\* the agent-results section built from keys and conclusions alone
RECURSIVE SectionOf(_)
SectionOf(concls) ==
    IF concls = <<>> THEN <<>>
    ELSE <<Ch("=== "), [c |-> "upper", s |-> Head(concls).name], Ch(" ==="),
           [c |-> "json", v |-> Head(concls).conclusion]>>
         \o SectionOf(Tail(concls))

\* the prompt of the final call_llm: the last message posted
FinalSent == sent[Len(sent)].content

\* C26: the final prompt depends on the worker results only through the
\* conclusion of each: its agent-results section is built from the keys and
\* the conclusions alone, and two results with equal conclusions give the same
\* dump, whatever their reasoning and actions.
C26_ConclusionsOnly ==
    cp_pc \in {"final", "done"} =>
        /\ FinalSent =
               <<Ch("You coordinated a multi-agent prediction for flight "),
                 Ch(cp_args.flight_number), Ch("Agent Results:")>>
               \o SectionOf(ConclusionsOf(agent_results))
               \o <<Ch("Synthesize these findings into: ... Output as JSON")>>
        /\ Len(FinalSent) = 4 * Len(agent_results) + 4
        /\ \A i, j \in 1..Len(agent_results) :
               agent_results[i].value.conclusion = agent_results[j].value.conclusion
               => FinalSent[4 * i + 3] = FinalSent[4 * j + 3]

\* the final prompt is posted with the results of two workers that concluded
\* the same, one after invoking a tool and one without
C26_Witness ==
    /\ cp_pc = "final"
    /\ Len(agent_results) = 2
    /\ agent_results[1].value.conclusion = agent_results[2].value.conclusion
    /\ agent_results[1].value.actions # agent_results[2].value.actions
    /\ agent_results[1].value.agent # agent_results[2].value.agent
    /\ FinalSent[7] = FinalSent[11]


-----------------------------------------------------------------------------
\* the tool names a parsed plan lists
Planned(plan) ==
    LET listed == Get(plan, "tools_to_use", JList(<<>>))
    IN IF listed.ty = "list"
       THEN {Get(listed.items[i], "tool", None) :
                 i \in {k \in 1..Len(listed.items) : listed.items[k].ty = "obj"}}
       ELSE {}

\* C27: the Director's own decide_and_act invokes no tools: the Director has
\* no tool registered, so whatever plan the oracle returns to it, a plan that
\* names a tool of a specialist included, no tool runs during its pass and the
\* actions of director_analysis are empty.
C27_DirectorNoTools ==
    /\ (Delegating /\ self = Director) => tool_results = <<>>
    /\ \A k \in 1..Len(agents[Director].task_history) :
           agents[Director].task_history[k].tool_results = <<>>
    /\ cp_decision.ty = "returned" => cp_decision.actions = <<>>
    /\ cp_pc = "done" => report.director_analysis.actions = <<>>

\* a report whose director_analysis has no actions although the Director's
\* plan named a tool, which a worker invoked when its own plan named it
C27_Witness ==
    /\ cp_pc = "done"
    /\ report.director_analysis.actions = <<>>
    /\ JStr("get_current_weather") \in Planned(agents[Director].task_history[1].decision)
    /\ HasTool(agents["WeatherSpecialist"].tools, "get_current_weather")
    /\ \E i \in 1..Len(report.specialist_reports) :
           /\ report.specialist_reports[i].value.agent = "WeatherSpecialist"
           /\ report.specialist_reports[i].value.actions # <<>>


-----------------------------------------------------------------------------
\* the user entries ever appended, oldest first: one per task submitted
UserEntries ==
    SelectSeq(appended, LAMBDA e : e.role = "user")

\* C28: every decide_and_act call that appends the task's user entry also
\* appends one task record and one assistant entry before control leaves it:
\* between calls there are as many task records, and as many assistant
\* entries, as tasks ever submitted.
C28_EveryTaskRecorded ==
    Idle =>
        /\ Len(UserEntries) = calls.tasks
        /\ Len(task_history) = Len(UserEntries)
        /\ Len(AssistantEntries) = Len(UserEntries)


-----------------------------------------------------------------------------
\* C29: for a worker driven by decide_and_act only, between tasks the memory
\* has length min(10, 2 * n) after n completed tasks, its roles alternate
\* user, assistant from a first user entry to a last assistant entry, and no
\* system entry is stored.
C29_MemoryShape ==
    (Idle /\ calls.appends = 0) =>
        /\ Len(memory) = Min(max_memory, 2 * Len(task_history))
        /\ \A i \in 1..Len(memory) :
               memory[i].role = IF i % 2 = 1 THEN "user" ELSE "assistant"
        /\ \A i \in 1..Len(memory) : memory[i].role # "system"


-----------------------------------------------------------------------------
\* the messages of a request before its prompt: the system prompt and the
\* memory window
Context(messages) == SubSeq(messages, 1, Len(messages) - 1)

\* C30: within one decide_and_act call the memory is the same at the planning
\* call_llm and at the synthesis call_llm: neither the plan nor a tool result
\* is appended between them, both requests carry the same memory window, and
\* the last entry of that window is the user entry of the task at hand.
C30_SameWindow ==
    /\ [][ /\ pc \in {"plan_wait", "acting"} => UNCHANGED <<memory, appended>>
           /\ (pc = "acting" /\ pc' = "synth_wait") =>
                 /\ Context(sent') = Context(sent)
                 /\ sent'[Len(sent')].content = SynthesisPrompt(tool_results) ]_vars
    /\ [](pc \in {"plan_wait", "acting", "synth_wait"} =>
             /\ memory # <<>>
             /\ memory[Len(memory)] = appended[Len(appended)]
             /\ memory[Len(memory)].role = "user"
             /\ memory[Len(memory)].content = task
             /\ Len(sent) >= 3
             /\ sent[Len(sent) - 1] = [role |-> "user", content |-> task])

\* the synthesis request of a second task is posted after a tool ran: its
\* window ends with the task, not with the plan or the tool result
C30_Witness ==
    /\ pc = "synth_wait"
    /\ Len(task_history) = 1
    /\ tool_results # <<>>
    /\ decision # <<>>
    /\ Len(sent) >= 5
    /\ sent[Len(sent) - 1] = [role |-> "user", content |-> task]
    /\ sent[Len(sent)].content = SynthesisPrompt(tool_results)

=============================================================================
